---- MODULE Spec2Model ----
(***************************************************************************)
(* State-machine model of the backend request-coordination layer:          *)
(*   - LRUCache   (src/backend/src/cache/LRUCache.ts)  : the Store         *)
(*   - AsyncQueue (src/backend/src/queue/AsyncQueue.ts): the Scheduler     *)
(*   - RateLimiter (src/backend/src/middleware/errorHandler.ts): the       *)
(*     Admission Controller                                                *)
(* Each component has its own specification (SpecStore, SpecQueue,         *)
(* SpecLimiter) over the shared variable tuple; the other components'      *)
(* variables stay put.                                                     *)
(***************************************************************************)
EXTENDS Integers, Sequences, FiniteSets, TLC

\* ------------------------------------------------------------------ bounds
\* capacity ranges over 0..MaxCap; ttl is MaxTtl clock units; the clock runs
\* 0..MaxTime (past ttl); at most MaxOps Store calls; maxConcurrent ranges over
\* 1..MaxConc; at most MaxCalls enqueue calls (MaxLiveCalls under fairness).
\* The RateLimiter's quotas range over 0..MaxQuota, its windows over 1..MaxWindow
\* ticks of TickMs milliseconds, its clock over 0..MaxTicks ticks, and it takes
\* at most MaxReqs calls.
MaxCap == 2
MaxTtl == 1
MaxTime == 2
MaxOps == 4
MaxConc == 2
MaxCalls == 4
MaxLiveCalls == 3
MaxCrowdCalls == 5
MaxQuota == 2
MaxWindow == 2
TickMs == 700
MaxTicks == 2
MaxReqs == 4
MaxFlowReqs == 3

Keys == {"a", "b", "c"}
Vals == {"u", "w"}
Null == "null"
\* ids passed to enqueue
Ids == {"a", "b"}
\* what a fetch function can fail with: an Error instance, or any other value
ErrorInstances == {"Error: boom"}
Failures == ErrorInstances \cup {"'boom'"}
UnknownError == "Error: Unknown error"
\* new NotFoundError(`User with ID ${userId} does not exist`)
NotFoundError == "NotFoundError: User does not exist"
\* the objects of the classes that extend CustomError, itself an Error
CustomErrors == {NotFoundError}

VARIABLES
  \* LRUCache fields
  capacity, ttl, cache, head, tail, stats,
  \* Date.now()
  now,
  \* observation of the last completed public call of the Store (with
  \* whether it found its key's entry older than ttl) and the number of calls
  last, nOps,
  \* history of the Store: keys by last successful get/set (most recent first),
  \* time of the last set of each key (-1: never set), and the value last set
  \* for each key whose entry is in the store (Null otherwise)
  touched, lastSet, lastVal,
  \* the timer started by the constructor ("active" until clearInterval), and
  \* whether destroy() has been called
  cleanupInterval, destroyed

storeVars ==
  <<capacity, ttl, cache, head, tail, stats, now, last, nOps, touched, lastSet, lastVal,
    cleanupInterval, destroyed>>

VARIABLES
  \* AsyncQueue fields; queue holds task numbers, processing maps an id to the
  \* task whose promise is stored under it
  maxConcurrent, queue, processing, currentlyProcessing,
  \* the QueueTask objects in creation order, each with its promise
  tasks,
  \* the enqueue calls in call order, each with the promise it returned
  calls,
  \* task numbers in the order their fn was invoked
  started

queueVars == <<maxConcurrent, queue, processing, currentlyProcessing, tasks, calls, started>>

VARIABLES
  \* RateLimiter fields; clients maps a client id to its record
  config, clients,
  \* Date.now() as the RateLimiter reads it, in milliseconds
  clock,
  \* the answer to the last request (or the last cleanup), the requests so
  \* far with their times and answers, and the number of calls so far
  decision, log, rlOps,
  \* the timer started by the constructor ("active" until a clearInterval),
  \* and whether the owner has disposed of the limiter
  limiterTimer, released

limiterVars == <<config, clients, clock, decision, log, rlOps, limiterTimer, released>>

VARIABLES
  \* the answer of the route handler to the last HTTP request
  reply

flowVars == <<reply>>

vars == <<storeVars, queueVars, limiterVars, flowVars>>

\* ------------------------------------------------------- sequence helpers
RECURSIVE SeqWithout(_, _)
SeqWithout(s, x) ==
  IF s = <<>> THEN <<>>
  ELSE IF Head(s) = x THEN SeqWithout(Tail(s), x)
  ELSE <<Head(s)>> \o SeqWithout(Tail(s), x)

RECURSIVE SeqKeep(_, _)
SeqKeep(s, S) ==
  IF s = <<>> THEN <<>>
  ELSE IF Head(s) \in S THEN <<Head(s)>> \o SeqKeep(Tail(s), S)
  ELSE SeqKeep(Tail(s), S)

\* --------------------------------------------------------------- LRUCache
\* The Map and the node objects: cache maps a key to its CacheNode; prev/next
\* hold the key of the neighbouring node (every node is owned by exactly one
\* Map entry, so a node is named by its key).
St == [cache |-> cache, head |-> head, tail |-> tail, stats |-> stats]

NewNode(k, v, t) == [key |-> k, value |-> v, timestamp |-> t, prev |-> Null, next |-> Null]

MapDelete(c, k) == [x \in (DOMAIN c) \ {k} |-> c[x]]

MapSet(c, k, node) == [x \in (DOMAIN c) \cup {k} |-> IF x = k THEN node ELSE c[x]]

IsExpiredOff(node, t) == t - node.timestamp >= ttl

IsExpired(node, t) == t - node.timestamp > ttl

RemoveNodeKeepTail(S, k) ==
  LET node == S.cache[k]
      c1 == IF node.prev # Null
              THEN [S.cache EXCEPT ![node.prev].next = node.next]
              ELSE S.cache
      h1 == IF node.prev # Null THEN S.head ELSE node.next
      c2 == IF node.next # Null
              THEN [c1 EXCEPT ![node.next].prev = node.prev]
              ELSE c1
  IN [S EXCEPT !.cache = c2, !.head = h1]

\* removeNode: unlink node k from the list (the node itself keeps its links)
RemoveNode(S, k) ==
  LET node == S.cache[k]
      c1 == IF node.prev # Null
              THEN [S.cache EXCEPT ![node.prev].next = node.next]
              ELSE S.cache
      h1 == IF node.prev # Null THEN S.head ELSE node.next
      c2 == IF node.next # Null
              THEN [c1 EXCEPT ![node.next].prev = node.prev]
              ELSE c1
      t1 == IF node.next # Null THEN S.tail ELSE node.prev
  IN [S EXCEPT !.cache = c2, !.head = h1, !.tail = t1]

\* addToHead: link node k in front of head
AddToHead(S, k) ==
  LET c1 == [S.cache EXCEPT ![k].next = S.head, ![k].prev = Null]
      c2 == IF S.head # Null THEN [c1 EXCEPT ![S.head].prev = k] ELSE c1
  IN [S EXCEPT !.cache = c2, !.head = k,
               !.tail = IF S.tail = Null THEN k ELSE S.tail]

MoveToHeadNoop(S, k) == S

MoveToHead(S, k) == AddToHead(RemoveNode(S, k), k)

DropEntryKeepSize(S, k) ==
  LET S1 == RemoveNode(S, k)
  IN [S1 EXCEPT !.cache = MapDelete(S1.cache, k)]

\* cache.delete(key); removeNode(node); stats.size--
DropEntry(S, k) ==
  LET S1 == RemoveNode(S, k)
  IN [S1 EXCEPT !.cache = MapDelete(S1.cache, k), !.stats.size = @ - 1]

EvictLRUHead(S) ==
  IF S.head = Null THEN S
  ELSE [DropEntry(S, S.head) EXCEPT !.stats.evictions = @ + 1]

EvictLRU(S) ==
  IF S.tail = Null THEN S
  ELSE [DropEntry(S, S.cache[S.tail].key) EXCEPT !.stats.evictions = @ + 1]

OverCapacityOff(size) == size > capacity + 1

OverCapacity(size) == size > capacity

\* get: the store after the call and the value returned
GetOp(S, k, t) ==
  IF k \notin DOMAIN S.cache
    THEN [st |-> [S EXCEPT !.stats.misses = @ + 1], ret |-> Null]
  ELSE IF IsExpired(S.cache[k], t)
    THEN [st |-> [DropEntry(S, k) EXCEPT !.stats.misses = @ + 1], ret |-> Null]
  ELSE [st |-> [MoveToHead(S, k) EXCEPT !.stats.hits = @ + 1],
        ret |-> S.cache[k].value]

SetOpInPlace(S, k, v, t) ==
  IF k \in DOMAIN S.cache
    THEN [S EXCEPT !.cache[k].value = v, !.cache[k].timestamp = t]
  ELSE LET S1 == AddToHead([S EXCEPT !.cache = MapSet(S.cache, k, NewNode(k, v, t))], k)
           S2 == [S1 EXCEPT !.stats.size = @ + 1]
       IN IF OverCapacity(S2.stats.size) THEN EvictLRU(S2) ELSE S2

SetOpStale(S, k, v, t) ==
  IF k \in DOMAIN S.cache
    THEN MoveToHead([S EXCEPT !.cache[k].value = v], k)
  ELSE LET S1 == AddToHead([S EXCEPT !.cache = MapSet(S.cache, k, NewNode(k, v, t))], k)
           S2 == [S1 EXCEPT !.stats.size = @ + 1]
       IN IF OverCapacity(S2.stats.size) THEN EvictLRU(S2) ELSE S2

\* set
SetOp(S, k, v, t) ==
  IF k \in DOMAIN S.cache
    THEN MoveToHead([S EXCEPT !.cache[k].value = v, !.cache[k].timestamp = t], k)
  ELSE LET S1 == AddToHead([S EXCEPT !.cache = MapSet(S.cache, k, NewNode(k, v, t))], k)
           S2 == [S1 EXCEPT !.stats.size = @ + 1]
       IN IF OverCapacity(S2.stats.size) THEN EvictLRU(S2) ELSE S2

HasOpTouching(S, k, t) ==
  IF k \notin DOMAIN S.cache THEN [st |-> S, ret |-> "false"]
  ELSE IF IsExpired(S.cache[k], t) THEN [st |-> DropEntry(S, k), ret |-> "false"]
  ELSE [st |-> MoveToHead(S, k), ret |-> "true"]

ClearOpResetStats(S) ==
  [S EXCEPT !.cache = <<>>, !.head = Null, !.tail = Null,
            !.stats = [hits |-> 0, misses |-> 0, size |-> 0, evictions |-> 0]]

HasOpCounting(S, k, t) ==
  IF k \notin DOMAIN S.cache
    THEN [st |-> [S EXCEPT !.stats.misses = @ + 1], ret |-> "false"]
  ELSE IF IsExpired(S.cache[k], t)
    THEN [st |-> [DropEntry(S, k) EXCEPT !.stats.misses = @ + 1], ret |-> "false"]
  ELSE [st |-> [S EXCEPT !.stats.hits = @ + 1], ret |-> "true"]

\* has
HasOp(S, k, t) ==
  IF k \notin DOMAIN S.cache THEN [st |-> S, ret |-> "false"]
  ELSE IF IsExpired(S.cache[k], t) THEN [st |-> DropEntry(S, k), ret |-> "false"]
  ELSE [st |-> S, ret |-> "true"]

\* clear
ClearOp(S) ==
  [S EXCEPT !.cache = <<>>, !.head = Null, !.tail = Null, !.stats.size = 0]

DestroyOpKeepTimer(S) == [st |-> ClearOp(S), timer |-> cleanupInterval]

\* destroy: clearInterval(this.cleanupInterval); this.clear()
DestroyOp(S) == [st |-> ClearOp(S), timer |-> "cleared"]

\* cleanupStaleEntries: collect the stale keys, then drop each one still present
RECURSIVE DropAll(_, _)
DropAll(S, ks) ==
  IF ks = {} THEN S
  ELSE LET k == CHOOSE x \in ks : TRUE
       IN DropAll(IF k \in DOMAIN S.cache THEN DropEntry(S, k) ELSE S, ks \ {k})

CleanupStaleEntriesEarly(S, t) ==
  DropAll(S, {k \in DOMAIN S.cache : t - S.cache[k].timestamp >= ttl})

CleanupStaleEntries(S, t) ==
  DropAll(S, {k \in DOMAIN S.cache : t - S.cache[k].timestamp > ttl})

\* the keys of the list from node k along the next links
RECURSIVE ChainOf(_, _)
ChainOf(c, k) == IF k = Null THEN <<>> ELSE <<k>> \o ChainOf(c, c[k].next)

\* --------------------------------------------------------- Store actions
SetStore(S) ==
  /\ cache' = S.cache
  /\ head' = S.head
  /\ tail' = S.tail
  /\ stats' = S.stats

Called(op, k, ret, ev) ==
  /\ last' = [op |-> op, key |-> k, ret |-> ret, evicted |-> ev,
              expired |-> k \in DOMAIN cache /\ now - cache[k].timestamp > ttl]
  /\ nOps' = nOps + 1

\* the value last set, kept for the entries of store S
Written(S, k, v) ==
  [x \in Keys |-> IF x \notin DOMAIN S.cache THEN Null
                  ELSE IF x = k THEN v ELSE lastVal[x]]

Get(k) ==
  /\ nOps < MaxOps
  /\ LET r == GetOp(St, k, now)
     IN /\ SetStore(r.st)
        /\ Called("get", k, r.ret, Null)
        /\ touched' = IF r.ret # Null THEN <<k>> \o SeqWithout(touched, k)
                      ELSE SeqKeep(touched, DOMAIN r.st.cache)
        /\ lastVal' = Written(r.st, k, lastVal[k])
  /\ UNCHANGED <<cleanupInterval, destroyed, capacity, ttl, now, lastSet>>
  /\ UNCHANGED <<queueVars, limiterVars, flowVars>>

Set(k, v) ==
  /\ nOps < MaxOps
  /\ LET S == SetOp(St, k, v, now)
         gone == ((DOMAIN cache) \cup {k}) \ DOMAIN S.cache
     IN /\ SetStore(S)
        /\ Called("set", k, Null, IF gone = {} THEN Null ELSE CHOOSE x \in gone : TRUE)
        /\ touched' = SeqKeep(<<k>> \o SeqWithout(touched, k), DOMAIN S.cache)
        /\ lastVal' = Written(S, k, v)
  /\ lastSet' = [lastSet EXCEPT ![k] = now]
  /\ UNCHANGED <<cleanupInterval, destroyed, capacity, ttl, now>>
  /\ UNCHANGED <<queueVars, limiterVars, flowVars>>

Has(k) ==
  /\ nOps < MaxOps
  /\ LET r == HasOp(St, k, now)
     IN /\ SetStore(r.st)
        /\ Called("has", k, r.ret, Null)
        /\ touched' = SeqKeep(touched, DOMAIN r.st.cache)
        /\ lastVal' = Written(r.st, k, lastVal[k])
  /\ UNCHANGED <<cleanupInterval, destroyed, capacity, ttl, now, lastSet>>
  /\ UNCHANGED <<queueVars, limiterVars, flowVars>>

Clear ==
  /\ nOps < MaxOps
  /\ SetStore(ClearOp(St))
  /\ Called("clear", Null, Null, Null)
  /\ touched' = <<>>
  /\ lastVal' = [k \in Keys |-> Null]
  /\ UNCHANGED <<cleanupInterval, destroyed, capacity, ttl, now, lastSet>>
  /\ UNCHANGED <<queueVars, limiterVars, flowVars>>

GetStats ==
  /\ nOps < MaxOps
  /\ Called("getStats", Null, Null, Null)
  /\ UNCHANGED <<cleanupInterval, destroyed, capacity, ttl, cache, head, tail, stats, now, touched, lastSet, lastVal>>
  /\ UNCHANGED <<queueVars, limiterVars, flowVars>>

\* the setInterval callback of the constructor
Sweep ==
  /\ nOps < MaxOps
  /\ cleanupInterval = "active"
  /\ LET S == CleanupStaleEntries(St, now)
     IN /\ SetStore(S)
        /\ touched' = SeqKeep(touched, DOMAIN S.cache)
        /\ lastVal' = [k \in Keys |-> IF k \in DOMAIN S.cache THEN lastVal[k] ELSE Null]
  /\ Called("sweep", Null, Null, Null)
  /\ UNCHANGED <<cleanupInterval, destroyed, capacity, ttl, now, lastSet>>
  /\ UNCHANGED <<queueVars, limiterVars, flowVars>>

Destroy ==
  /\ nOps < MaxOps
  /\ \E r \in {DestroyOp(St)} :
       /\ SetStore(r.st)
       /\ cleanupInterval' = r.timer
  /\ destroyed' = TRUE
  /\ Called("destroy", Null, Null, Null)
  /\ touched' = <<>>
  /\ lastVal' = [k \in Keys |-> Null]
  /\ UNCHANGED <<capacity, ttl, now, lastSet>>
  /\ UNCHANGED <<queueVars, limiterVars, flowVars>>

\* Date.now() advances between two calls (a longer wait is several steps)
ClockStep ==
  /\ now < MaxTime
  /\ now' = now + 1
  /\ UNCHANGED <<cleanupInterval, destroyed, capacity, ttl, cache, head, tail, stats, last, nOps, touched, lastSet, lastVal>>
  /\ UNCHANGED <<queueVars, limiterVars, flowVars>>

InitStore ==
  /\ capacity \in 0..MaxCap
  /\ ttl = MaxTtl
  /\ cache = <<>>
  /\ head = Null
  /\ tail = Null
  /\ stats = [hits |-> 0, misses |-> 0, size |-> 0, evictions |-> 0]
  /\ now = 0
  /\ last = [op |-> "new", key |-> Null, ret |-> Null, evicted |-> Null,
             expired |-> FALSE]
  /\ nOps = 0
  /\ touched = <<>>
  /\ lastSet = [k \in Keys |-> -1]
  /\ lastVal = [k \in Keys |-> Null]
  /\ cleanupInterval = "active"
  /\ destroyed = FALSE

NextStore ==
  \/ \E k \in Keys : Get(k)
  \/ \E k \in Keys, v \in Vals : Set(k, v)
  \/ \E k \in Keys : Has(k)
  \/ Clear
  \/ GetStats
  \/ Sweep
  \/ ClockStep

\* the Store with its shutdown
NextStoreLife ==
  \/ NextStore
  \/ Destroy


\* ------------------------------------------------------------- AsyncQueue
\* A fetch function either returns a pending promise (kind "async", settled
\* later by its environment) or throws err at the moment it is invoked.
Fns == {[kind |-> "async", err |-> Null], [kind |-> "throw", err |-> "Error: boom"]}

Pending == [kind |-> "none", v |-> Null]
Resolved(v) == [kind |-> "value", v |-> v]
Rejected(e) == [kind |-> "error", v |-> e]
Outcomes == {Resolved(v) : v \in Vals} \cup {Rejected(e) : e \in Failures}

Qs == [queue |-> queue, processing |-> processing,
       currentlyProcessing |-> currentlyProcessing,
       tasks |-> tasks, calls |-> calls, started |-> started]

\* error instanceof Error ? error : new Error('Unknown error')
WrapError(e) == IF e \in ErrorInstances \cup CustomErrors THEN e ELSE UnknownError

\* what task.resolve / task.reject hand to the caller that created the task
CreatorOutcome(o) == IF o.kind = "error" THEN Rejected(WrapError(o.v)) ELSE o

\* settle the promise of call c with o (a settled promise stays as it is)
SettleCall(cs, c, o) ==
  IF cs[c].outcome = Pending
    THEN [cs EXCEPT ![c].outcome = o, ![c].settled = @ + 1]
    ELSE [cs EXCEPT ![c].settled = @ + 1]

SettleTaskSticky(Q, t, o) ==
  LET cs == [c \in 1..Len(Q.calls) |->
               IF Q.calls[c].task # t THEN Q.calls[c]
               ELSE IF Q.calls[c].role = "creator"
                 THEN SettleCall(Q.calls, c, CreatorOutcome(o))[c]
                 ELSE SettleCall(Q.calls, c, o)[c]]
  IN [Q EXCEPT !.calls = cs,
               !.tasks[t].outcome = o,
               !.tasks[t].state = IF o.kind = "value" THEN "Succeeded" ELSE "Running"]

\* the task's own promise settles with o: task.resolve/reject for the creator,
\* the promise stored in processing for every call that joined it
SettleTask(Q, t, o) ==
  LET cs == [c \in 1..Len(Q.calls) |->
               IF Q.calls[c].task # t THEN Q.calls[c]
               ELSE IF Q.calls[c].role = "creator"
                 THEN SettleCall(Q.calls, c, CreatorOutcome(o))[c]
                 ELSE SettleCall(Q.calls, c, o)[c]]
  IN [Q EXCEPT !.calls = cs,
               !.tasks[t].outcome = o,
               !.tasks[t].state = IF o.kind = "value" THEN "Succeeded" ELSE "Failed"]

\* the consumers of the promise of task t's run (`promise`, stored in
\* processing): nothing in processQueue subscribes to it, so they are the
\* calls of enqueue that found it in processing and returned it
RunConsumers(Q, t) ==
  {c \in 1..Len(Q.calls) : Q.calls[c].task = t /\ Q.calls[c].role = "joiner"}

SlotFreeSpare(Q) == ~(Q.currentlyProcessing + 1 >= maxConcurrent \/ Len(Q.queue) = 0)

SlotFreeNoLimit(Q) == Len(Q.queue) # 0

\* the negation of processQueue's early return
SlotFree(Q) == ~(Q.currentlyProcessing >= maxConcurrent \/ Len(Q.queue) = 0)

DequeueLast(q) == [task |-> q[Len(q)], rest |-> SubSeq(q, 1, Len(q) - 1)]

\* queue.shift()
Dequeue(q) == [task |-> Head(q), rest |-> Tail(q)]

\* finally: processing.delete(task.id); currentlyProcessing--
Finally(Q, t) ==
  [Q EXCEPT !.processing = MapDelete(@, Q.tasks[t].id),
            !.currentlyProcessing = @ - 1]

\* processQueue: runs to completion; a fetch function that throws when invoked
\* runs catch and finally (with the nested processQueue) before the promise
\* is stored in processing
RECURSIVE ProcessQueue(_)
ProcessQueue(Q0) ==
  CHOOSE R \in
    { IF ~SlotFree(Q) THEN Q
      ELSE LET d == Dequeue(Q.queue)
               t == d.task
               Q1 == [Q EXCEPT !.queue = d.rest,
                               !.currentlyProcessing = @ + 1,
                               !.started = Append(@, t)]
           IN IF Q.tasks[t].fn.kind = "throw"
                THEN LET Q2 == SettleTask(Q1, t, Rejected(Q.tasks[t].fn.err))
                         Q3 == ProcessQueue(Finally(Q2, t))
                     IN [Q3 EXCEPT !.processing = MapSet(@, Q.tasks[t].id, t)]
                ELSE [Q1 EXCEPT !.tasks[t].state = "Running",
                                !.processing = MapSet(@, Q.tasks[t].id, t)]
      : Q \in {Q0} } : TRUE

\* enqueue(id, fn): join the promise stored under id, or create a task
EnqueueOp(Q, id, fn) ==
  LET first == \A t \in 1..Len(Q.tasks) :
                 Q.tasks[t].id = id => Q.tasks[t].state \in {"Queued", "Running"}
  IN IF id \in DOMAIN Q.processing
       THEN LET t == Q.processing[id]
                c == [id |-> id, task |-> t, role |-> "joiner", first |-> first,
                      outcome |-> Q.tasks[t].outcome,
                      settled |-> IF Q.tasks[t].outcome = Pending THEN 0 ELSE 1]
            IN [Q EXCEPT !.calls = Append(@, c)]
       ELSE LET t == Len(Q.tasks) + 1
                c == [id |-> id, task |-> t, role |-> "creator", first |-> first,
                      outcome |-> Pending, settled |-> 0]
                task == [id |-> id, fn |-> fn, state |-> "Queued", outcome |-> Pending]
            IN ProcessQueue([Q EXCEPT !.calls = Append(@, c),
                                      !.tasks = Append(@, task),
                                      !.queue = Append(@, t)])

SettleOpNoRestart(Q, t, o) == Finally(SettleTask(Q, t, o), t)

\* the continuation of `await task.fn()` once the fetch settled with o
SettleOp(Q, t, o) == ProcessQueue(Finally(SettleTask(Q, t, o), t))

\* --------------------------------------------------------- Queue actions
SetQueue(Q) ==
  /\ queue' = Q.queue
  /\ processing' = Q.processing
  /\ currentlyProcessing' = Q.currentlyProcessing
  /\ tasks' = Q.tasks
  /\ calls' = Q.calls
  /\ started' = Q.started

Enqueue(id, fn) ==
  /\ Len(calls) < MaxCalls
  /\ \E Q \in {EnqueueOp(Qs, id, fn)} : SetQueue(Q)
  /\ UNCHANGED maxConcurrent
  /\ UNCHANGED <<storeVars, limiterVars, flowVars>>

Settle(t, o) ==
  /\ tasks[t].state = "Running"
  /\ \E Q \in {SettleOp(Qs, t, o)} : SetQueue(Q)
  /\ UNCHANGED maxConcurrent
  /\ UNCHANGED <<storeVars, limiterVars, flowVars>>

InitQueue ==
  /\ maxConcurrent \in 1..MaxConc
  /\ queue = <<>>
  /\ processing = <<>>
  /\ currentlyProcessing = 0
  /\ tasks = <<>>
  /\ calls = <<>>
  /\ started = <<>>

NextQueue ==
  \/ \E id \in Ids, fn \in Fns : Enqueue(id, fn)
  \/ \E t \in 1..Len(tasks), o \in Outcomes : Settle(t, o)

\* every fetch function is an async function, as the one GET /users/:id passes
NextQueueAsync ==
  \/ \E id \in Ids : Enqueue(id, [kind |-> "async", err |-> Null])
  \/ \E t \in 1..Len(tasks), o \in Outcomes : Settle(t, o)

\* ------------------------------------------------------------ RateLimiter
\* req.ip of the requests
Clients == {"ip1", "ip2"}
NoClient == "none"

\* the configurations the constructor is given: quotas 0..MaxQuota, windows of
\* 1..MaxWindow ticks of TickMs milliseconds
Windows == {k * TickMs : k \in 1..MaxWindow}
Configs == [maxRequests : 0..MaxQuota, windowMs : Windows,
            burstRequests : 0..MaxQuota, burstWindowMs : Windows]
MinConfig == [maxRequests |-> 0, windowMs |-> TickMs,
              burstRequests |-> 0, burstWindowMs |-> TickMs]

\* { requests: [], burstRequests: [] }
NewRecord == [requests |-> <<>>, burstRequests |-> <<>>]

\* a JavaScript number, NaN, or no retryAfter at all (the request went through)
Num(x) == [type |-> "number", value |-> x]
NaN == [type |-> "NaN", value |-> 0]
NoRetry == [type |-> "none", value |-> 0]

FreshAlways(t, n, window) == TRUE

FreshInclusive(t, n, window) == n - t <= window

\* the filter predicate (t) => now - t < window
Fresh(t, n, window) == n - t < window

\* array.filter((t) => now - t < window)
RECURSIVE Filter(_, _, _)
Filter(s, n, window) ==
  IF s = <<>> THEN <<>>
  ELSE IF Fresh(Head(s), n, window)
    THEN <<Head(s)>> \o Filter(Tail(s), n, window)
    ELSE Filter(Tail(s), n, window)

\* both sequences of a record filtered at time n
Prune(rec, n) ==
  [requests |-> Filter(rec.requests, n, config.windowMs),
   burstRequests |-> Filter(rec.burstRequests, n, config.burstWindowMs)]

FloorMs(x) == x \div 1000

\* Math.ceil(x / 1000)
CeilMs(x) == -((-x) \div 1000)

\* Math.ceil((s[0] + window - now) / 1000); s[0] of an empty array is
\* undefined and the result is NaN
RetryAfter(s, window, n) ==
  IF s = <<>> THEN NaN ELSE Num(CeilMs(s[1] + window - n))

BurstLimited(rec) == Len(rec.burstRequests) >= config.burstRequests

RateLimitedOff(rec) == FALSE

RateLimited(rec) == Len(rec.requests) >= config.maxRequests

DecideRateFirst(rec, n) ==
  IF RateLimited(rec)
    THEN [kind |-> "rate",
          retryAfter |-> RetryAfter(rec.requests, config.windowMs, n)]
  ELSE IF BurstLimited(rec)
    THEN [kind |-> "burst",
          retryAfter |-> RetryAfter(rec.burstRequests, config.burstWindowMs, n)]
  ELSE [kind |-> "next", retryAfter |-> NoRetry]

\* the answer to a request whose record, filtered, is rec: 429 with the burst
\* message, 429 with the rate message, or next()
Decide(rec, n) ==
  IF BurstLimited(rec)
    THEN [kind |-> "burst",
          retryAfter |-> RetryAfter(rec.burstRequests, config.burstWindowMs, n)]
  ELSE IF RateLimited(rec)
    THEN [kind |-> "rate",
          retryAfter |-> RetryAfter(rec.requests, config.windowMs, n)]
  ELSE [kind |-> "next", retryAfter |-> NoRetry]

MiddlewareOpCounting(L, c, n) ==
  LET rec == Prune(IF c \in DOMAIN L THEN L[c] ELSE NewRecord, n)
  IN [clients |-> MapSet(L, c, [requests |-> Append(rec.requests, n),
                                burstRequests |-> Append(rec.burstRequests, n)]),
      decision |-> Decide(rec, n)]

\* the middleware for a request of client c at time n: the record is created
\* when missing, filtered, and gets n pushed when the request goes through
MiddlewareOp(L, c, n) ==
  LET rec == Prune(IF c \in DOMAIN L THEN L[c] ELSE NewRecord, n)
      d == Decide(rec, n)
      kept == IF d.kind = "next"
                THEN [requests |-> Append(rec.requests, n),
                      burstRequests |-> Append(rec.burstRequests, n)]
                ELSE rec
  IN [clients |-> MapSet(L, c, kept), decision |-> d]

IdleNever(rec) == FALSE

\* record.requests.length === 0 && record.burstRequests.length === 0
Idle(rec) == Len(rec.requests) = 0 /\ Len(rec.burstRequests) = 0

\* cleanup(): every record is filtered at time n and deleted when idle
CleanupOp(L, n) ==
  LET P == [c \in DOMAIN L |-> Prune(L[c], n)]
  IN [c \in {x \in DOMAIN L : ~Idle(P[x])} |-> P[c]]

\* ---------------------------------------------------- RateLimiter actions
Middleware(c) ==
  /\ rlOps < MaxReqs
  /\ \E r \in {MiddlewareOp(clients, c, clock)} :
       /\ clients' = r.clients
       /\ decision' = [op |-> "middleware", client |-> c, kind |-> r.decision.kind,
                       retryAfter |-> r.decision.retryAfter]
       /\ log' = Append(log, [client |-> c, time |-> clock, kind |-> r.decision.kind])
  /\ rlOps' = rlOps + 1
  /\ UNCHANGED <<config, clock, limiterTimer, released>>
  /\ UNCHANGED <<storeVars, queueVars, flowVars>>

Cleanup ==
  /\ rlOps < MaxReqs
  /\ limiterTimer = "active"
  /\ clients' = CleanupOp(clients, clock)
  /\ decision' = [op |-> "cleanup", client |-> NoClient, kind |-> "none",
                  retryAfter |-> NoRetry]
  /\ rlOps' = rlOps + 1
  /\ UNCHANGED <<config, clock, log, limiterTimer, released>>
  /\ UNCHANGED <<storeVars, queueVars, flowVars>>

\* Date.now() never goes back
ClockAdvance ==
  /\ clock < MaxTicks * TickMs
  /\ clock' = clock + TickMs
  /\ UNCHANGED <<config, clients, decision, log, rlOps, limiterTimer, released>>
  /\ UNCHANGED <<storeVars, queueVars, flowVars>>

InitLimiter ==
  /\ config \in Configs
  /\ clients = <<>>
  /\ clock = 0
  /\ decision = [op |-> "new", client |-> NoClient, kind |-> "none",
                 retryAfter |-> NoRetry]
  /\ log = <<>>
  /\ rlOps = 0
  /\ limiterTimer = "active"
  /\ released = FALSE

NextLimiter ==
  \/ \E c \in Clients : Middleware(c)
  \/ Cleanup
  \/ ClockAdvance

\* the owner disposes of the limiter: the class has no method for it and the
\* handle setInterval returned was not kept, so nothing is cleared
Release ==
  /\ ~released
  /\ released' = TRUE
  /\ UNCHANGED <<config, clients, clock, decision, log, rlOps, limiterTimer>>
  /\ UNCHANGED <<storeVars, queueVars, flowVars>>

NextLimiterLife ==
  \/ NextLimiter
  \/ Release

\* ------------------------------------------------- the routes of index.ts
\* mockUsers: the users that exist, by id; id "c" has no user
mockUsers == [k \in {"a", "b"} |-> IF k = "a" THEN "u" ELSE "w"]

\* the fetch function handed to enqueue is an async arrow function
LookupFn == [kind |-> "async", err |-> Null]

NoReply == [route |-> "none", id |-> Null, kind |-> "none", value |-> Null]

\* the rate limiter is configured once, the burst window below the sustained
\* window
FlowConfig == [maxRequests |-> MaxQuota, windowMs |-> MaxWindow * TickMs,
               burstRequests |-> MaxQuota, burstWindowMs |-> TickMs]

\* the client (req.ip) the requests of the flow come from
FlowClients == {"ip1"}

FetchPrefixNegative(S, id, t) ==
  LET r == GetOp(S, id, t)
  IN IF r.ret # Null THEN [st |-> r.st, settles |-> Resolved(r.ret)]
     ELSE IF id \notin DOMAIN mockUsers
       THEN [st |-> SetOp(r.st, id, Null, t), settles |-> Rejected(NotFoundError)]
     ELSE [st |-> r.st, settles |-> Pending]

\* the fetch function up to its first await that waits: the second look in
\* the cache, then the user's record; it settles at once with the cached
\* value or with NotFoundError, or stays pending on simulateDbCall
FetchPrefix(S, id, t) ==
  LET r == GetOp(S, id, t)
  IN IF r.ret # Null THEN [st |-> r.st, settles |-> Resolved(r.ret)]
     ELSE IF id \notin DOMAIN mockUsers
       THEN [st |-> r.st, settles |-> Rejected(NotFoundError)]
     ELSE [st |-> r.st, settles |-> Pending]

\* the rest of the macrotask: every task started since the k-th invocation
\* runs its fetch function's prefix; one that settled at once runs the
\* queue's catch/finally (which may start the next task) in the microtasks
\* that follow
RECURSIVE Drain(_, _)
Drain(L, k) ==
  IF Len(L.q.started) <= k THEN L
  ELSE LET t == L.q.started[k + 1]
           p == FetchPrefix(L.st, L.q.tasks[t].id, now)
       IN Drain([st |-> p.st,
                 q |-> IF p.settles = Pending THEN L.q
                       ELSE SettleOp(L.q, t, p.settles)], k + 1)

\* the handler of GET /users/:id up to its await
LookupOp(S, Q, id) ==
  LET r == GetOp(S, id, now)
  IN IF r.ret # Null
       THEN [st |-> r.st, q |-> Q, kind |-> "cached", value |-> r.ret]
       ELSE LET L == Drain([st |-> r.st, q |-> EnqueueOp(Q, id, LookupFn)],
                           Len(Q.started))
            IN [st |-> L.st, q |-> L.q, kind |-> "queued", value |-> Null]

DbDoneOpNoSet(S, Q, t) ==
  Drain([st |-> S, q |-> SettleOp(Q, t, Resolved(mockUsers[Q.tasks[t].id]))],
        Len(Q.started))

\* simulateDbCall's timer fires for running task t: the fetch function
\* writes the cache and returns, and the queue's finally runs
DbDoneOp(S, Q, t) ==
  LET id == Q.tasks[t].id
  IN Drain([st |-> SetOp(S, id, mockUsers[id], now),
            q |-> SettleOp(Q, t, Resolved(mockUsers[id]))],
           Len(Q.started))

AdmittedAlways(d) == TRUE

\* the middleware calls next() only on this branch; every other branch answers
\* 429 and returns
Admitted(d) == d.kind = "next"

\* the rate limiter's part of a request of client c
Admission(c, r) ==
  /\ clients' = r.clients
  /\ decision' = [op |-> "middleware", client |-> c, kind |-> r.decision.kind,
                  retryAfter |-> r.decision.retryAfter]
  /\ log' = Append(log, [client |-> c, time |-> clock, kind |-> r.decision.kind])
  /\ rlOps' = rlOps + 1
  /\ UNCHANGED <<config, clock, limiterTimer, released>>

\* the history of the Store after the handlers left it as S, having set key k
\* to v (last and nOps observe direct calls of the Store only)
StoreHistory(S, k, v) ==
  /\ touched' = ChainOf(S.cache, S.head)
  /\ lastVal' = Written(S, k, v)
  /\ UNCHANGED <<capacity, ttl, now, last, nOps, cleanupInterval, destroyed>>

Denied(route, id) ==
  /\ reply' = [route |-> route, id |-> id, kind |-> "denied", value |-> Null]
  /\ UNCHANGED <<storeVars, queueVars>>

\* GET /users/:id of client c
GetUser(c, id) ==
  /\ rlOps < MaxFlowReqs
  /\ \E r \in {MiddlewareOp(clients, c, clock)} :
       /\ Admission(c, r)
       /\ IF Admitted(r.decision)
            THEN \E L \in {LookupOp(St, Qs, id)} :
                   /\ SetStore(L.st)
                   /\ SetQueue(L.q)
                   /\ StoreHistory(L.st, id, lastVal[id])
                   /\ reply' = [route |-> "getUser", id |-> id, kind |-> L.kind,
                                value |-> L.value]
                   /\ UNCHANGED <<lastSet, maxConcurrent>>
            ELSE Denied("getUser", id)

\* DELETE /cache of client c
ClearCache(c) ==
  /\ rlOps < MaxFlowReqs
  /\ \E r \in {MiddlewareOp(clients, c, clock)} :
       /\ Admission(c, r)
       /\ IF Admitted(r.decision)
            THEN \E S \in {ClearOp(St)} :
                   /\ SetStore(S)
                   /\ touched' = <<>>
                   /\ lastVal' = [k \in Keys |-> Null]
                   /\ reply' = [route |-> "clearCache", id |-> Null, kind |-> "ok",
                                value |-> Null]
                   /\ UNCHANGED <<capacity, ttl, now, last, nOps, lastSet,
                                  cleanupInterval, destroyed>>
                   /\ UNCHANGED queueVars
            ELSE Denied("clearCache", Null)

\* the timer of simulateDbCall of running task t
DbDone(t) ==
  /\ tasks[t].state = "Running"
  /\ \E L \in {DbDoneOp(St, Qs, t)} :
       /\ SetStore(L.st)
       /\ SetQueue(L.q)
       /\ StoreHistory(L.st, tasks[t].id, mockUsers[tasks[t].id])
  /\ lastSet' = [lastSet EXCEPT ![tasks[t].id] = now]
  /\ UNCHANGED <<maxConcurrent, limiterVars, flowVars>>

\* Date.now() as both the cache and the rate limiter read it
FlowTick ==
  /\ now < MaxTime
  /\ now' = now + 1
  /\ clock' = clock + TickMs
  /\ UNCHANGED <<capacity, ttl, cache, head, tail, stats, last, nOps, touched,
                 lastSet, lastVal, cleanupInterval, destroyed>>
  /\ UNCHANGED <<config, clients, decision, log, rlOps, limiterTimer, released>>
  /\ UNCHANGED <<queueVars, flowVars>>

InitFlow == reply = NoReply

InitLookup ==
  /\ InitStore /\ capacity > 0
  /\ InitQueue
  /\ InitLimiter /\ config = FlowConfig
  /\ InitFlow

NextLookup ==
  \/ \E c \in FlowClients : \E id \in Keys : GetUser(c, id)
  \/ \E c \in FlowClients : ClearCache(c)
  \/ \E t \in 1..Len(tasks) : DbDone(t)
  \/ FlowTick

SpecLookup == InitLookup /\ [][NextLookup]_vars

\* each component alone, the other two idle
InitStoreOnly ==
  InitStore /\ InitQueue /\ maxConcurrent = 1 /\ InitLimiter /\ config = MinConfig
    /\ InitFlow

InitQueueOnly ==
  InitQueue /\ InitStore /\ capacity = 0 /\ InitLimiter /\ config = MinConfig
    /\ InitFlow

InitLimiterOnly ==
  InitLimiter /\ InitStore /\ capacity = 0 /\ InitQueue /\ maxConcurrent = 1
    /\ InitFlow

SpecStore == InitStoreOnly /\ [][NextStore]_vars

SpecStoreLife == InitStoreOnly /\ [][NextStoreLife]_vars

SpecQueue == InitQueueOnly /\ [][NextQueue]_vars

SpecQueueAsync == InitQueueOnly /\ [][NextQueueAsync]_vars

SpecLimiter == InitLimiterOnly /\ [][NextLimiter]_vars

SpecLimiterLife == InitLimiterOnly /\ [][NextLimiterLife]_vars

\* three ids and room for MaxCrowdCalls calls: two ids keep two slots busy
\* while calls for the third arrive
CrowdIds == Ids \cup {"c"}

EnqueueCrowd(id) ==
  /\ Len(calls) < MaxCrowdCalls
  /\ \E Q \in {EnqueueOp(Qs, id, [kind |-> "async", err |-> Null])} : SetQueue(Q)
  /\ UNCHANGED maxConcurrent
  /\ UNCHANGED <<storeVars, limiterVars, flowVars>>

NextQueueCrowd ==
  \/ \E id \in CrowdIds : EnqueueCrowd(id)
  \/ \E t \in 1..Len(tasks), o \in {Resolved("u"), Rejected("Error: boom")} : Settle(t, o)

SpecQueueCrowd == InitQueueOnly /\ [][NextQueueCrowd]_vars

\* the fetch of task t settles, with some outcome
SettleAny(t) == t \in 1..Len(tasks) /\ \E o \in Outcomes : Settle(t, o)

\* enqueue is called at most MaxLiveCalls times
EnqueueLive(id, fn) == Len(calls) < MaxLiveCalls /\ Enqueue(id, fn)

NextQueueLive ==
  \/ \E id \in Ids, fn \in Fns : EnqueueLive(id, fn)
  \/ \E t \in 1..Len(tasks), o \in Outcomes : Settle(t, o)

\* every started fetch function eventually settles
SpecQueueFair ==
  /\ InitQueueOnly
  /\ [][NextQueueLive]_vars
  /\ \A t \in 1..MaxLiveCalls : WF_vars(SettleAny(t))

\* ----------------------------------------------------------- Store claims
\* a step of the Store that is the call op(k)
IsCall(op, k) == nOps' = nOps + 1 /\ last'.op = op /\ last'.key = k

\* C1: after every public operation and every sweep the size reported by
\* getStats() is at most capacity, for every capacity 0..MaxCap.
C1_CapacityInvariant == stats.size <= capacity

C1_Witness ==
  /\ last.op = "set" /\ last.evicted # Null
  /\ capacity > 0 /\ stats.size = capacity

\* C2: whenever a set evicts, it is the set of an absent key, exactly one entry
\* goes, and it is the entry whose last successful get or set is the oldest
\* among the entries present (the inserted one included).
C2_LRUVictim ==
  [][stats'.evictions # stats.evictions =>
       LET k == last'.key
           present == (DOMAIN cache) \cup {k}
           order == <<k>> \o SeqWithout(touched, k)
       IN /\ IsCall("set", k) /\ k \notin DOMAIN cache
          /\ stats'.evictions = stats.evictions + 1
          /\ {order[i] : i \in 1..Len(order)} = present
          /\ present \ DOMAIN cache' = {order[Len(order)]}
          /\ DOMAIN cache' = present \ {order[Len(order)]}]_vars

\* capacity 2: set(a), set(b), get(a), set(c) has evicted b and kept a
C2_Witness ==
  /\ capacity = 2 /\ nOps = 4 /\ stats.hits = 1
  /\ last.op = "set" /\ last.key = "c" /\ last.evicted = "b"
  /\ DOMAIN cache = {"a", "c"}

\* C3 as stated: every get(k) issued when now - (time of the last set of k) > ttl
\* returns absent, removes the entry, lowers size by one and records one miss.
C3_ExpiredGetAlwaysShrinks ==
  [][\A k \in Keys :
       (IsCall("get", k) /\ lastSet[k] >= 0 /\ now - lastSet[k] > ttl) =>
         /\ last'.ret = Null
         /\ k \notin DOMAIN cache'
         /\ stats'.size = stats.size - 1
         /\ stats'.misses = stats.misses + 1]_vars

\* C3 (amended): a get(k) issued when the entry is still in the store and
\* now - (time of the last set of k) > ttl returns absent, removes exactly that
\* entry, lowers size by one and records one miss; when the entry is already
\* gone it returns absent and records one miss with size unchanged; when the
\* entry is in the store and that age is <= ttl it returns the last value set
\* and records one hit.
C3_ExpirationOnGet ==
  [][\A k \in Keys : IsCall("get", k) =>
       IF k \in DOMAIN cache /\ now - lastSet[k] > ttl
         THEN /\ last'.ret = Null
              /\ DOMAIN cache' = (DOMAIN cache) \ {k}
              /\ stats'.size = stats.size - 1
              /\ stats'.misses = stats.misses + 1
              /\ stats'.hits = stats.hits
       ELSE IF k \in DOMAIN cache
         THEN /\ last'.ret = lastVal[k]
              /\ DOMAIN cache' = DOMAIN cache
              /\ stats'.size = stats.size
              /\ stats'.hits = stats.hits + 1
              /\ stats'.misses = stats.misses
       ELSE /\ last'.ret = Null
            /\ DOMAIN cache' = DOMAIN cache
            /\ stats'.size = stats.size
            /\ stats'.misses = stats.misses + 1
            /\ stats'.hits = stats.hits]_vars

\* set(k) at 0, then get(k) once the age exceeds ttl: absent, and the store is empty
C3_Witness ==
  /\ nOps = 2 /\ last.op = "get" /\ last.ret = Null
  /\ lastSet[last.key] >= 0 /\ now - lastSet[last.key] > ttl
  /\ capacity > 0 /\ stats.size = 0 /\ stats.misses = 1

\* C4: a get that finds a present entry of age <= ttl adds one hit, every other
\* get adds one miss, and no other step (set, has, clear, getStats, sweep,
\* clock) changes hits or misses.
C4_HitMissAccounting ==
  [][IF nOps' = nOps + 1 /\ last'.op = "get"
       THEN LET k == last'.key
            IN IF k \in DOMAIN cache /\ now - cache[k].timestamp <= ttl
                 THEN stats'.hits = stats.hits + 1 /\ stats'.misses = stats.misses
                 ELSE stats'.hits = stats.hits /\ stats'.misses = stats.misses + 1
       ELSE stats'.hits = stats.hits /\ stats'.misses = stats.misses]_vars

C4_Witness ==
  /\ stats.hits >= 1 /\ stats.misses >= 1
  /\ last.op = "has" /\ last.ret = "false" /\ stats.size = 0 /\ nOps = MaxOps

\* ------------------------------------------------------- Scheduler claims
Unfinished == {"Queued", "Running"}
Terminal == {"Succeeded", "Failed"}

\* the calls for id issued before any fetch for id has settled
FirstGroup(id) == {c \in 1..Len(calls) : calls[c].id = id /\ calls[c].first}

\* how many times the fetch functions of the tasks in T were invoked
Invocations(T) == Cardinality({i \in 1..Len(started) : started[i] \in T})

\* C5: when K >= 2 calls of enqueue for one id are all issued before the first
\* fetch for that id settles, the fetch function is invoked at most once for
\* them, and exactly once by the time all of them are settled.
C5_SingleFlight ==
  \A id \in Ids :
    LET g == FirstGroup(id)
        n == Invocations({calls[c].task : c \in g})
    IN Cardinality(g) >= 2 =>
         /\ n <= 1
         /\ (\A c \in g : calls[c].settled > 0) => n = 1

\* C6: for each id at most one task is Queued or Running.
C6_OneTaskPerKey ==
  \A id \in Ids :
    Cardinality({t \in 1..Len(tasks) :
                   tasks[t].id = id /\ tasks[t].state \in Unfinished}) <= 1

\* C7: every caller attached to a task is settled at most once, and all the
\* settled callers of one task hold the identical outcome.
C7_SharedOutcome ==
  /\ \A c \in 1..Len(calls) : calls[c].settled <= 1
  /\ \A c1, c2 \in 1..Len(calls) :
       (calls[c1].task = calls[c2].task
          /\ calls[c1].settled > 0 /\ calls[c2].settled > 0)
       => calls[c1].outcome = calls[c2].outcome

\* C8: when a running task settles, its id is absent from the in-flight table
\* once the settling step is over (before any caller's continuation runs), so
\* the next enqueue for that id creates a task.
C8_FreshAfterCompletion ==
  [][\A t \in 1..Len(tasks) :
       (tasks[t].state = "Running" /\ tasks'[t].state \in Terminal)
       => tasks[t].id \notin DOMAIN processing']_vars

\* C9: the fetch functions started and not yet settled are exactly the
\* currentlyProcessing ones, and 0 <= currentlyProcessing <= maxConcurrent.
C9_ConcurrencyBound ==
  /\ currentlyProcessing = Cardinality({t \in 1..Len(tasks) : tasks[t].state = "Running"})
  /\ 0 <= currentlyProcessing
  /\ currentlyProcessing <= maxConcurrent

C9_Witness ==
  /\ currentlyProcessing = maxConcurrent
  /\ Len(queue) >= 1
  /\ \E t \in 1..Len(tasks) : tasks[t].state \in Terminal

\* C10: fetch functions are invoked in the order their tasks were created, each
\* task once, and the waiting queue holds the remaining tasks in that order.
C10_FifoAdmission ==
  /\ started = [i \in 1..Len(started) |-> i]
  /\ queue = [i \in 1..Len(queue) |-> Len(started) + i]
  /\ Len(started) + Len(queue) = Len(tasks)

C10_Witness ==
  /\ maxConcurrent = 1
  /\ Len(started) >= 2
  /\ Len(queue) >= 2

\* C11: every task created by enqueue eventually leaves Queued (its fetch
\* function is invoked), and every call of enqueue, creator or joiner, is
\* eventually settled with a value or a failure, provided every started fetch
\* settles.
C11_SchedulerLiveness ==
  /\ \A t \in 1..MaxLiveCalls :
       (t <= Len(tasks) /\ tasks[t].state = "Queued")
         ~> (t <= Len(tasks) /\ tasks[t].state # "Queued" /\ Invocations({t}) = 1)
  /\ \A c \in 1..MaxLiveCalls :
       (c <= Len(calls))
         ~> (c <= Len(calls) /\ calls[c].settled = 1 /\ calls[c].outcome # Pending)

\* a task that had to wait behind another one has run, and a joiner was served
C11_Witness ==
  /\ maxConcurrent = 1
  /\ Len(tasks) >= 2 /\ Len(calls) = MaxLiveCalls
  /\ \A t \in 1..Len(tasks) : tasks[t].state \in Terminal
  /\ \A c \in 1..Len(calls) : calls[c].settled = 1
  /\ \E c \in 1..Len(calls) : calls[c].role = "joiner"

\* ------------------------------------------------------ RateLimiter claims
\* the requests of client c so far, in arrival order
ClientLog(c) == SelectSeq(log, LAMBDA e : e.client = c)

\* the requests of L before the i-th that went through less than window
\* milliseconds before the i-th arrived
AllowedWithin(L, i, window) ==
  {j \in 1..(i - 1) : L[j].kind = "next" /\ L[i].time - L[j].time < window}

\* a step that is a request of client c / a run of cleanup
IsRequest(c) ==
  rlOps' = rlOps + 1 /\ decision'.op = "middleware" /\ decision'.client = c

IsCleanup == rlOps' = rlOps + 1 /\ decision'.op = "cleanup"

\* the times of the requests of c that went through and are younger than
\* window at the current clock, oldest first
Surviving(c, window) ==
  LET L == SelectSeq(ClientLog(c),
                     LAMBDA e : e.kind = "next" /\ clock - e.time < window)
  IN [i \in 1..Len(L) |-> L[i].time]

\* the least integer n with x <= 1000 * n, for 0 < x <= the longest window
CeilSeconds(x) ==
  CHOOSE n \in 0..(MaxWindow * TickMs) : 1000 * (n - 1) < x /\ x <= 1000 * n

\* C12: for one client with burstRequests = B and burst window W, when B+1
\* requests arrive within W of the first (a request with nothing admitted in
\* the W before it) and the sustained quota is not reached, the first B go
\* through and the (B+1)th is denied; a request that arrives when W has fully
\* elapsed since every admitted request, under the sustained quota, goes
\* through again.
C12_AdmissionOrdering ==
  \A c \in Clients :
    LET L == ClientLog(c)
        B == config.burstRequests
        W == config.burstWindowMs
        under(j) == Cardinality(AllowedWithin(L, j, config.windowMs)) < config.maxRequests
    IN /\ \A i \in 1..Len(L) :
            (/\ AllowedWithin(L, i, W) = {}
             /\ i + B <= Len(L)
             /\ L[i + B].time - L[i].time < W
             /\ \A j \in i..(i + B - 1) : under(j))
            => /\ \A j \in i..(i + B - 1) : L[j].kind = "next"
               /\ L[i + B].kind = "burst"
       /\ \A k \in 1..Len(L) :
            (B >= 1 /\ AllowedWithin(L, k, W) = {} /\ under(k))
            => L[k].kind = "next"

\* B requests went through, the next one inside the window was denied although
\* the sustained quota was not reached, and a later one went through again
C12_Witness ==
  \E c \in Clients :
    LET L == ClientLog(c)
        B == config.burstRequests
        W == config.burstWindowMs
    IN /\ B >= 1 /\ Len(L) >= B + 2
       /\ \A j \in 1..B : L[j].kind = "next"
       /\ L[B + 1].kind = "burst" /\ L[B + 1].time - L[1].time < W
       /\ Cardinality(AllowedWithin(L, B + 1, config.windowMs)) < config.maxRequests
       /\ L[B + 2].kind = "next" /\ L[B + 2].time - L[B].time >= W

\* the requests of client c that went through at a time in (t - window, t]
AllowedIn(c, t, window) ==
  LET L == ClientLog(c)
  IN {j \in 1..Len(L) : L[j].kind = "next" /\ t - window < L[j].time /\ L[j].time <= t}

\* C13: for every client and every time t, at most burstRequests requests of
\* the client went through in (t - burstWindowMs, t] and at most maxRequests
\* in (t - windowMs, t].
C13_QuotaSafety ==
  \A c \in Clients : \A k \in 0..MaxTicks :
    /\ Cardinality(AllowedIn(c, k * TickMs, config.burstWindowMs)) <= config.burstRequests
    /\ Cardinality(AllowedIn(c, k * TickMs, config.windowMs)) <= config.maxRequests

\* one client has used up its sustained quota and was denied for it, and has
\* used up its burst quota and was denied for it
C13_Witness ==
  \E c \in Clients :
    LET L == ClientLog(c)
    IN /\ config.burstRequests >= 1 /\ config.maxRequests >= 1
       /\ \E i \in 1..Len(L) :
            /\ L[i].kind = "rate"
            /\ Cardinality(AllowedIn(c, L[i].time, config.windowMs)) = config.maxRequests
       /\ \E i \in 1..Len(L) :
            /\ L[i].kind = "burst"
            /\ Cardinality(AllowedIn(c, L[i].time, config.burstWindowMs)) = config.burstRequests

\* C14: a request that finds, among the client's admitted requests, at least
\* burstRequests younger than burstWindowMs and at least maxRequests younger
\* than windowMs is denied with the burst answer, and its retryAfter is the one
\* of the oldest surviving burst timestamp and burstWindowMs.
C14_TieBreak ==
  [][\A c \in Clients :
       LET sb == Surviving(c, config.burstWindowMs)
           ss == Surviving(c, config.windowMs)
       IN (/\ IsRequest(c)
           /\ Len(sb) >= config.burstRequests
           /\ Len(ss) >= config.maxRequests)
          => /\ decision'.kind = "burst"
             /\ Len(sb) > 0 =>
                  decision'.retryAfter =
                    Num(CeilSeconds(sb[1] + config.burstWindowMs - clock))]_vars

\* a burst denial of a client that is over its sustained quota as well, where
\* the sustained sequence would have given another retryAfter
C14_Witness ==
  /\ decision.op = "middleware" /\ decision.kind = "burst"
  /\ config.burstRequests >= 1 /\ config.maxRequests >= 1
  /\ LET ss == Surviving(decision.client, config.windowMs)
     IN /\ Len(ss) >= config.maxRequests
        /\ decision.retryAfter.type = "number"
        /\ decision.retryAfter.value # CeilSeconds(ss[1] + config.windowMs - clock)

\* C15: a burst denial carries retryAfter = ceil((oldest surviving burst
\* timestamp + burstWindowMs - now) / 1000), a sustained denial the same with
\* the sustained sequence and windowMs; every request is answered, with next()
\* or with a denial that carries a retryAfter.
C15_RetryAfterValue ==
  [][\A c \in Clients :
       LET sb == Surviving(c, config.burstWindowMs)
           ss == Surviving(c, config.windowMs)
       IN IsRequest(c) =>
            /\ decision'.kind \in {"next", "burst", "rate"}
            /\ decision'.kind = "next" <=> decision'.retryAfter = NoRetry
            /\ (decision'.kind = "burst" /\ Len(sb) > 0) =>
                 decision'.retryAfter =
                   Num(CeilSeconds(sb[1] + config.burstWindowMs - clock))
            /\ (decision'.kind = "rate" /\ Len(ss) > 0) =>
                 decision'.retryAfter =
                   Num(CeilSeconds(ss[1] + config.windowMs - clock))]_vars

\* a sustained denial whose retryAfter was rounded up to 2 seconds
C15_Witness ==
  /\ decision.op = "middleware" /\ decision.kind = "rate"
  /\ decision.retryAfter = Num(2)
  /\ LET ss == Surviving(decision.client, config.windowMs)
     IN Len(ss) > 0 /\ (ss[1] + config.windowMs - clock) % 1000 # 0

\* the timestamps of s younger than window at the current clock
Young(s, window) == {i \in 1..Len(s) : clock - s[i] < window}

\* C16: right after a run of cleanup no record of the client table has both
\* sequences empty (after pruning at the time of the run), and every record
\* that had a surviving timestamp is still there.
C16_IdleCleanup ==
  [][IsCleanup =>
       /\ \A c \in DOMAIN clients' :
            \/ Young(clients'[c].requests, config.windowMs) # {}
            \/ Young(clients'[c].burstRequests, config.burstWindowMs) # {}
       /\ \A c \in DOMAIN clients :
            (\/ Young(clients[c].requests, config.windowMs) # {}
             \/ Young(clients[c].burstRequests, config.burstWindowMs) # {})
            => c \in DOMAIN clients']_vars

\* both clients were admitted; the cleanup dropped the idle one and kept the
\* other
C16_Witness ==
  /\ decision.op = "cleanup"
  /\ Cardinality(DOMAIN clients) = 1
  /\ \A c \in Clients : \E i \in 1..Len(log) : log[i].client = c /\ log[i].kind = "next"

\* ------------------------------------------------- Store claims, continued
\* the store after the step
StNext == [cache |-> cache', head |-> head', tail |-> tail', stats |-> stats']

\* entry x has the same value and timestamp before and after the step
SameEntry(x) ==
  /\ cache'[x].value = cache[x].value
  /\ cache'[x].timestamp = cache[x].timestamp

\* C17: has(k) returns true exactly when get(k) at the same instant would
\* return a value; it changes neither hits, misses, evictions nor the recency
\* order, and the only change it can make is to remove the entry of k, when
\* that entry is expired.
C17_HasIsPeek ==
  [][\A k \in Keys :
       IsCall("has", k) =>
         LET removed == k \in DOMAIN cache /\ now - cache[k].timestamp > ttl
         IN /\ last'.ret = "true" <=> GetOp(St, k, now).ret # Null
            /\ stats'.hits = stats.hits /\ stats'.misses = stats.misses
            /\ stats'.evictions = stats.evictions
            /\ IF removed
                 THEN /\ DOMAIN cache' = (DOMAIN cache) \ {k}
                      /\ stats'.size = stats.size - 1
                      /\ ChainOf(cache', head') = SeqWithout(ChainOf(cache, head), k)
                      /\ \A x \in DOMAIN cache' : SameEntry(x)
                 ELSE StNext = St]_vars

\* capacity 2, both entries in place: has of the least recently used key
\* answered true and the key still is the least recently used one
C17_Witness ==
  /\ capacity = 2 /\ stats.size = 2
  /\ last.op = "has" /\ last.ret = "true" /\ last.key = tail
  /\ stats.hits = 0 /\ stats.misses = 0

\* C18: after clear the store has no entries (size 0, get and has find no
\* key), and hits, misses and evictions are what they were.
C18_Clear ==
  [][IsCall("clear", Null) =>
       /\ stats'.size = 0 /\ DOMAIN cache' = {}
       /\ \A k \in Keys : /\ GetOp(StNext, k, now).ret = Null
                          /\ HasOp(StNext, k, now).ret = "false"
       /\ stats'.hits = stats.hits /\ stats'.misses = stats.misses
       /\ stats'.evictions = stats.evictions]_vars

\* a store with a hit and an eviction on record has been cleared
C18_Witness ==
  /\ last.op = "clear" /\ stats.size = 0
  /\ stats.hits >= 1 /\ stats.evictions >= 1

\* C19: set(k, v) for a key that has an entry replaces the value, sets the
\* timestamp to now and makes the entry the most recently used one; size,
\* evictions and every other entry stay as they are.
C19_SetExisting ==
  [][\A k \in Keys :
       (IsCall("set", k) /\ k \in DOMAIN cache) =>
         /\ DOMAIN cache' = DOMAIN cache
         /\ cache'[k].value = lastVal'[k]
         /\ cache'[k].timestamp = now
         /\ ChainOf(cache', head') = <<k>> \o SeqWithout(ChainOf(cache, head), k)
         /\ stats' = stats
         /\ \A x \in (DOMAIN cache) \ {k} : SameEntry(x)]_vars

\* set(k), get(k), a tick, set(k) again: one entry, freshly stamped
C19_Witness ==
  /\ nOps = 3 /\ last.op = "set"
  /\ stats.hits = 1 /\ stats.size = 1 /\ stats.evictions = 0
  /\ now >= 1 /\ cache[last.key].timestamp = now
  /\ head = last.key

\* C20: set(k, v) for a key without an entry inserts it as the most recently
\* used entry; when size then exceeds capacity exactly one entry goes, the
\* least recently used one whatever its age, and evictions grows by one;
\* otherwise no entry goes and evictions keeps its value.
C20_SetNew ==
  [][\A k \in Keys :
       (IsCall("set", k) /\ k \notin DOMAIN cache) =>
         LET inserted == <<k>> \o ChainOf(cache, head)
         IN /\ IF stats.size + 1 > capacity
                 THEN /\ ChainOf(cache', head') = SubSeq(inserted, 1, Len(inserted) - 1)
                      /\ DOMAIN cache' = ((DOMAIN cache) \cup {k}) \ {inserted[Len(inserted)]}
                      /\ stats'.evictions = stats.evictions + 1
                      /\ stats'.size = stats.size
                 ELSE /\ ChainOf(cache', head') = inserted
                      /\ DOMAIN cache' = (DOMAIN cache) \cup {k}
                      /\ stats'.evictions = stats.evictions
                      /\ stats'.size = stats.size + 1
            /\ \A x \in (DOMAIN cache) \cap (DOMAIN cache') : SameEntry(x)
            /\ k \in DOMAIN cache' =>
                 cache'[k].value = lastVal'[k] /\ cache'[k].timestamp = now]_vars

\* the set of a new key has evicted an entry that was not expired while an
\* expired entry stayed
C20_Witness ==
  /\ last.op = "set" /\ last.evicted # Null /\ last.evicted # last.key
  /\ now - lastSet[last.evicted] <= ttl
  /\ \E x \in DOMAIN cache : now - cache[x].timestamp > ttl

\* the keys found by following field f ("next" or "prev") from key k, at most
\* n steps; a key that is not in the index ends the walk and is reported
RECURSIVE Walk(_, _, _, _)
Walk(c, k, f, n) ==
  IF k = Null \/ n = 0 THEN <<>>
  ELSE IF k \notin DOMAIN c THEN <<k>>
  ELSE <<k>> \o Walk(c, IF f = "next" THEN c[k].next ELSE c[k].prev, f, n - 1)

Reverse(s) == [i \in 1..Len(s) |-> s[Len(s) + 1 - i]]

\* C21: the keys of the index are the keys of the nodes reached from head by
\* next links, each exactly once; the list read from tail by prev links is the
\* exact reverse; head and tail are null exactly when the index is empty.
C21_IndexListConsistency ==
  LET n == Cardinality(Keys) + 1
      fwd == Walk(cache, head, "next", n)
      bwd == Walk(cache, tail, "prev", n)
  IN /\ {fwd[i] : i \in 1..Len(fwd)} = DOMAIN cache
     /\ Len(fwd) = Cardinality(DOMAIN cache)
     /\ bwd = Reverse(fwd)
     /\ (head = Null) <=> (DOMAIN cache = {})
     /\ (tail = Null) <=> (DOMAIN cache = {})

\* two entries, one eviction behind them, and a get has just moved the tail
\* node to the head
C21_Witness ==
  /\ last.op = "get" /\ last.ret # Null /\ head = last.key
  /\ stats.size = 2 /\ stats.evictions = 1 /\ tail # head

\* C22: destroy() leaves the Store without entries and stops the timer, and
\* from then on no step of the execution is a run of the periodic sweep.
C22_Teardown ==
  [][/\ IsCall("destroy", Null) =>
          /\ DOMAIN cache' = {} /\ stats'.size = 0
          /\ head' = Null /\ tail' = Null
          /\ \A k \in Keys : GetOp(StNext, k, now).ret = Null
     /\ destroyed => ~IsCall("sweep", Null)]_vars

\* after destroy() the execution went on: a key that had been set was looked
\* up and not found
C22_Witness ==
  /\ destroyed /\ last.op = "get" /\ last.ret = Null
  /\ lastSet[last.key] >= 0 /\ stats.size = 0

\* C26: a sweep at time now removes exactly the entries with now - timestamp >
\* ttl, keeps every other entry with its value, its timestamp and its place in
\* the recency order, lowers size by the number removed and leaves hits,
\* misses and evictions as they are.
C26_Sweep ==
  [][IsCall("sweep", Null) =>
       LET stale == {k \in DOMAIN cache : now - cache[k].timestamp > ttl}
           kept == (DOMAIN cache) \ stale
       IN /\ DOMAIN cache' = kept
          /\ \A x \in kept : SameEntry(x)
          /\ ChainOf(cache', head') = SeqKeep(ChainOf(cache, head), kept)
          /\ stats'.size = stats.size - Cardinality(stale)
          /\ stats'.hits = stats.hits /\ stats'.misses = stats.misses
          /\ stats'.evictions = stats.evictions]_vars

\* two keys were set at different times and the sweep removed one of them
C26_Witness ==
  /\ nOps = 3 /\ last.op = "sweep"
  /\ stats.size = 1 /\ stats.evictions = 0
  /\ Cardinality({k \in Keys : lastSet[k] >= 0}) = 2

\* the timestamps of s whose age at the current clock is at most window
NotOlder(s, window) == SelectSeq(s, LAMBDA t : clock - t <= window)

\* C27: a request at time now removes from the client's burst sequence exactly
\* the timestamps with now - t > burstWindowMs and from the sustained sequence
\* exactly those with now - t > windowMs; a timestamp whose age equals the
\* window is retained and counts against the quota.
C27_PruningBoundary ==
  [][\A c \in DOMAIN clients :
       IsRequest(c) =>
         LET keptB == NotOlder(clients[c].burstRequests, config.burstWindowMs)
             keptS == NotOlder(clients[c].requests, config.windowMs)
         IN /\ clients'[c].burstRequests \in {keptB, Append(keptB, clock)}
            /\ clients'[c].requests \in {keptS, Append(keptS, clock)}
            /\ Len(keptB) >= config.burstRequests => decision'.kind = "burst"
            /\ (Len(keptB) < config.burstRequests /\ Len(keptS) >= config.maxRequests)
                 => decision'.kind = "rate"]_vars

\* --------------------------------------------- Scheduler claims, continued
\* the tasks whose fetch function is invoked in the step, in that order
NewStarts == SubSeq(started', Len(started) + 1, Len(started'))

\* how many fetch functions are executing at the moment the i-th of NewStarts
\* is about to be invoked: the ones running before the step that the step did
\* not settle, and the ones the step has started before it
RunningBefore(i) ==
  Cardinality({u \in 1..Len(tasks) :
                 tasks[u].state = "Running" /\ tasks'[u].state = "Running"})
  + Cardinality({j \in 1..(i - 1) : tasks'[NewStarts[j]].state = "Running"})

\* C28: a task moves only Queued -> Running -> Succeeded | Failed; its fetch
\* function is invoked only when fewer than maxConcurrent are executing (a
\* function that throws when invoked fails within that same step); it leaves
\* Running only with the outcome of its fetch function; a terminal task never
\* changes; and its fetch function is invoked exactly once, never again after
\* a failure.
C28_TaskStateMachine ==
  [][\A t \in 1..Len(tasks') :
       LET old == IF t <= Len(tasks) THEN tasks[t].state ELSE "Queued"
           new == tasks'[t].state
           o == tasks'[t].outcome
       IN /\ old \in Terminal => (t <= Len(tasks) /\ tasks'[t] = tasks[t])
          /\ old = "Running" => new \in {"Running"} \cup Terminal
          /\ (old = "Queued" /\ new # "Queued") =>
               /\ new = "Running" \/ (new = "Failed" /\ tasks'[t].fn.kind = "throw")
               /\ \E i \in 1..Len(NewStarts) :
                    NewStarts[i] = t /\ RunningBefore(i) < maxConcurrent
          /\ new = "Queued" => (Invocations({t})' = 0 /\ o = Pending)
          /\ new = "Running" => (Invocations({t})' = 1 /\ o = Pending)
          /\ new = "Succeeded" => (Invocations({t})' = 1 /\ o.kind = "value")
          /\ new = "Failed" => (Invocations({t})' = 1 /\ o.kind = "error")]_vars

\* one slot: a task has succeeded, the next has failed, a third is running
C28_Witness ==
  /\ maxConcurrent = 1
  /\ \E t \in 1..Len(tasks) : tasks[t].state = "Succeeded"
  /\ \E t \in 1..Len(tasks) : tasks[t].state = "Failed" /\ tasks[t].fn.kind = "async"
  /\ \E t \in 1..Len(tasks) : tasks[t].state = "Running"

\* a step that is a call of enqueue for id
IsEnqueue(id) == Len(calls') = Len(calls) + 1 /\ calls'[Len(calls')].id = id

C30_NoUnhandledFailure ==
  \A t \in 1..Len(tasks) :
    tasks[t].state = "Failed" =>
      /\ \E c \in 1..Len(calls) :
           calls[c].task = t /\ calls[c].role = "creator" /\ calls[c].outcome.kind = "error"
      /\ RunConsumers(Qs, t) # {}

\* ------------------------------------------------------ lookup flow claims
\* a step that is the request GET /users/:id for id, answered with kind
IsGetUser(id, kind) ==
  /\ rlOps' = rlOps + 1
  /\ reply'.route = "getUser" /\ reply'.id = id /\ reply'.kind = kind

\* C23: in the lookup flow a fetch fails only because the user does not
\* exist; the failure is the outcome of every call attached to the failed
\* task, each settled once; the Store holds no entry for that key; and the
\* fetch function of the failed task was invoked once and not again.
C23_NotFoundNotStored ==
  \A t \in 1..Len(tasks) :
    tasks[t].state = "Failed" =>
      /\ tasks[t].id \notin DOMAIN mockUsers
      /\ tasks[t].outcome = Rejected(NotFoundError)
      /\ \A c \in 1..Len(calls) :
           calls[c].task = t =>
             calls[c].outcome.kind = "error" /\ calls[c].settled = 1
      /\ \E c \in 1..Len(calls) : calls[c].task = t
      /\ tasks[t].id \notin DOMAIN cache
      /\ Invocations({t}) = 1

\* two lookups of a missing user have failed, each with its own task, while
\* another user's record is in the Store
C23_Witness ==
  /\ \E t, u \in 1..Len(tasks) :
       /\ t # u /\ tasks[t].id = tasks[u].id
       /\ tasks[t].state = "Failed" /\ tasks[u].state = "Failed"
  /\ cache # <<>>

\* the Scheduler is left as it was by the step
SchedulerUnchanged ==
  UNCHANGED <<queue, processing, currentlyProcessing, tasks, calls, started>>

\* C24: when the fetch of a running lookup task succeeds, the Store holds the
\* task's key with the fetched record, written at that moment; and a lookup
\* of a key whose last write is at most ttl old and whose entry is still in
\* the Store (not cleared, not evicted since) is answered with that record
\* from the Store and submits nothing to the Scheduler.
C24_MissThenHit ==
  [][/\ \A t \in 1..Len(tasks) :
          (tasks[t].state = "Running" /\ tasks'[t].state = "Succeeded")
            => LET id == tasks[t].id
               IN /\ tasks'[t].outcome = Resolved(mockUsers[id])
                  /\ id \in DOMAIN cache'
                  /\ cache'[id].value = mockUsers[id]
                  /\ cache'[id].timestamp = now
     /\ \A id \in DOMAIN mockUsers :
          (/\ rlOps' = rlOps + 1 /\ reply'.route = "getUser" /\ reply'.id = id
           /\ reply'.kind # "denied"
           /\ lastSet[id] >= 0 /\ now - lastSet[id] <= ttl
           /\ id \in DOMAIN cache)
            => /\ reply'.kind = "cached"
               /\ reply'.value = mockUsers[id]
               /\ SchedulerUnchanged]_vars

\* a lookup was answered from the Store after an earlier lookup of the same
\* key missed twice and its fetch succeeded
C24_Witness ==
  /\ reply.route = "getUser" /\ reply.kind = "cached"
  /\ \E t \in 1..Len(tasks) : tasks[t].id = reply.id /\ tasks[t].state = "Succeeded"
  /\ stats.hits = 1 /\ stats.misses = 2
  /\ Len(calls) = 1

\* C25: a request the rate limiter denies (burst or sustained quota) leaves
\* the Store's entries, recency order and counters and the Scheduler's queue,
\* in-flight table, running count, tasks and callers as they were, and no
\* fetch function is invoked for it.
C25_DeniedGoesNoFurther ==
  [][(rlOps' = rlOps + 1 /\ decision'.op = "middleware" /\ decision'.kind # "next")
       => /\ UNCHANGED <<cache, head, tail, stats>>
          /\ SchedulerUnchanged
          /\ reply'.kind = "denied"]_vars

\* a lookup was denied while the Store held a record and a fetch was running
C25_Witness ==
  /\ reply.route = "getUser" /\ reply.kind = "denied"
  /\ decision.kind # "next"
  /\ cache # <<>>
  /\ \E t \in 1..Len(tasks) : tasks[t].state = "Running"

\* ------------------------------------------------ Limiter claims, continued
\* C31: once the owner has disposed of the Admission Controller, its periodic
\* cleanup never runs again.
C31_LimiterTeardown == [][released => ~IsCleanup]_vars

\* ------------------------------------------------- Store claims, concluded
\* C32: in every state the reported size is the number of keys of the index
\* and is not negative; in every step the size changes by the number of keys
\* that entered the index minus the number that left it (a key that one path
\* removed is not removed or counted again by another), and the evictions
\* counter grows by one, in a set that evicted, or not at all.
C32_SizeCounter ==
  /\ [](stats.size = Cardinality(DOMAIN cache) /\ stats.size >= 0)
  /\ [][LET gone == DOMAIN cache \ DOMAIN cache'
            new == DOMAIN cache' \ DOMAIN cache
        IN /\ stats'.size = stats.size - Cardinality(gone) + Cardinality(new)
           /\ \A k \in Keys \ DOMAIN cache :
                (IsCall("get", k) \/ IsCall("has", k) \/ IsCall("sweep", Null)
                   \/ IsCall("clear", Null))
                  => stats'.size <= stats.size /\ k \notin DOMAIN cache'
           /\ stats'.evictions \in {stats.evictions, stats.evictions + 1}
           /\ stats'.evictions # stats.evictions
                => last'.op = "set" /\ last'.evicted \notin DOMAIN cache']_vars

\* the sweep has just removed an expired entry and kept a live one, and no
\* entry was ever evicted
C32_Witness ==
  /\ last.op = "sweep" /\ stats.size = 1 /\ stats.evictions = 0
  /\ \E k \in Keys : lastSet[k] >= 0 /\ k \notin DOMAIN cache /\ now - lastSet[k] > ttl

\* C33: a denied request leaves in the client's record exactly the admitted
\* timestamps still younger than each window (nothing is appended), and a
\* request that finds fewer than burstRequests admitted timestamps younger
\* than burstWindowMs and fewer than maxRequests younger than windowMs goes
\* through, however many requests of the client were denied before it.
C33_DenialsAreFree ==
  [][\A c \in Clients :
       IsRequest(c) =>
         /\ decision'.kind # "next" =>
              /\ clients'[c].requests = Surviving(c, config.windowMs)
              /\ clients'[c].burstRequests = Surviving(c, config.burstWindowMs)
              /\ \A d \in (DOMAIN clients) \ {c} : clients'[d] = clients[d]
         /\ (/\ Len(Surviving(c, config.burstWindowMs)) < config.burstRequests
             /\ Len(Surviving(c, config.windowMs)) < config.maxRequests)
              => decision'.kind = "next"]_vars

\* a client was let through, then denied twice, then let through again
C33_Witness ==
  \E c \in Clients :
    LET L == ClientLog(c)
    IN /\ Len(L) = 4 /\ decision.client = c
       /\ L[1].kind = "next" /\ L[2].kind # "next" /\ L[3].kind # "next"
       /\ L[4].kind = "next"
       /\ L[2].time < L[3].time

\* ------------------------------------------- Scheduler claims, concluded
\* the tasks whose fetch function is executing
RunningTasks == {t \in 1..Len(tasks) : tasks[t].state = "Running"}

\* C34: after every call of enqueue and every completion, when the waiting
\* queue is not empty exactly maxConcurrent tasks are running and the running
\* count says so; a free slot and a waiting task never coexist.
C34_WorkConservation ==
  Len(queue) > 0 =>
    /\ currentlyProcessing = maxConcurrent
    /\ Cardinality(RunningTasks) = maxConcurrent

\* every slot is busy and a task waits, after a completion handed its slot to
\* a task that had been waiting
C34_Witness ==
  /\ Len(queue) > 0
  /\ Cardinality(RunningTasks) = maxConcurrent
  /\ \E t \in RunningTasks : \E u \in 1..Len(tasks) :
       u < t /\ tasks[u].state \in Terminal

\* C35: once a task whose fetch function threw at the moment it was invoked
\* has failed, the in-flight table holds no entry that leads to it (so the
\* next enqueue for its key creates a task of its own), and the running count
\* counts the executing tasks only.
C35_SyncThrowCleansUp ==
  \A t \in 1..Len(tasks) :
    (tasks[t].fn.kind = "throw" /\ tasks[t].state = "Failed") =>
      /\ ~(tasks[t].id \in DOMAIN processing /\ processing[tasks[t].id] = t)
      /\ currentlyProcessing = Cardinality(RunningTasks)

\* ---------------------------------------------- Limiter claims, concluded
\* C36: with burstRequests >= 1 and maxRequests >= 1 every denial is computed
\* from a non-empty sequence, and its retryAfter is an integer from 1 to
\* ceil(window / 1000), window being burstWindowMs for a burst denial and
\* windowMs for a sustained one.
C36_RetryAfterRange ==
  [][\A c \in Clients :
       (/\ IsRequest(c) /\ decision'.kind # "next"
        /\ config.burstRequests >= 1 /\ config.maxRequests >= 1)
         => LET W == IF decision'.kind = "burst" THEN config.burstWindowMs
                     ELSE config.windowMs
            IN /\ Surviving(c, W) # <<>>
               /\ decision'.retryAfter.type = "number"
               /\ decision'.retryAfter.value >= 1
               /\ decision'.retryAfter.value <= CeilSeconds(W)]_vars

\* a sustained denial half-way through a window of two ticks: retryAfter is 1,
\* below the bound of 2 seconds
C36_Witness ==
  /\ decision.op = "middleware" /\ decision.kind = "rate"
  /\ config.burstRequests >= 1 /\ config.maxRequests >= 1
  /\ decision.retryAfter = Num(1)
  /\ CeilSeconds(config.windowMs) = 2

\* C37: set(k, v) for a key whose entry is still in the Store but older than
\* ttl leaves one live entry for k with value v, stamped now, at the head of
\* the recency list, with the same keys, size and evictions as before; a
\* get(k) at any time up to ttl later returns v.
C37_SetRevives ==
  [][\A k \in Keys :
       (IsCall("set", k) /\ k \in DOMAIN cache /\ now - cache[k].timestamp > ttl) =>
         /\ DOMAIN cache' = DOMAIN cache
         /\ lastVal'[k] \in Vals
         /\ cache'[k].value = lastVal'[k]
         /\ cache'[k].timestamp = now
         /\ head' = k
         /\ ChainOf(cache', head') = <<k>> \o SeqWithout(ChainOf(cache, head), k)
         /\ stats'.size = stats.size /\ stats'.evictions = stats.evictions
         /\ \A t \in now..(now + ttl) : GetOp(StNext, k, t).ret = lastVal'[k]]_vars

\* a set has found its key's entry older than ttl, with a second entry in the
\* Store, and left it freshly stamped at the head
C37_Witness ==
  /\ last.op = "set" /\ last.expired
  /\ stats.size = 2 /\ head = last.key
  /\ cache[last.key].timestamp = now /\ now > ttl
  /\ stats.evictions = 0

\* C38: every admitted GET /users/:id changes hits + misses of the Store by
\* exactly one: one hit when it is answered from the Store, one miss
\* otherwise; and no other step of the flow changes them.
C38_OneProbePerLookup ==
  [][IF rlOps' = rlOps + 1 /\ reply'.route = "getUser" /\ reply'.kind # "denied"
       THEN IF reply'.kind = "cached"
              THEN stats'.hits = stats.hits + 1 /\ stats'.misses = stats.misses
              ELSE stats'.hits = stats.hits /\ stats'.misses = stats.misses + 1
       ELSE stats'.hits = stats.hits /\ stats'.misses = stats.misses]_vars

====
